---- MODULE Spec2Model ----
(***************************************************************************)
(* Two HTTP services.  Service A (src/service_a/main.py) logs a text       *)
(* payload and, when asked, forwards it with one blocking requests.post to *)
(* Service B (src/service_b/main.py), which answers with a randomised      *)
(* "prediction".                                                           *)
(*                                                                         *)
(* Units and encodings used below                                          *)
(*   - a Python str is a sequence of code points; a code point is one of   *)
(*     the names "a" (1 UTF-8 byte) and "eacute" (2 UTF-8 bytes);          *)
(*   - a confidence is an integer number of hundredths (70 is 0.70);       *)
(*   - a text rendered by an f-string or by the JSON encoder is a sequence *)
(*     of tokens (literal pieces, digits, ".");                            *)
(*   - for each of the 30 values c/100, c \in 70..99, the IEEE-754 double  *)
(*     product (c/100)*100 is exactly c, so the product is modelled        *)
(*     exactly, in hundredths of a percent.                                *)
(***************************************************************************)
EXTENDS Integers, Sequences, FiniteSets, TLC

\* ------------------------------------------------------------- bounds
\* client slots of Service A (requests that may be outstanding at once)
NumReq == 2
\* client slots that talk to Service B directly
NumDirect == 2
\* the random source is sampled at k / Grain, k \in 0..Grain
Grain == 2

\* ---------------------------------------------------- program constants
\* random.uniform(0.7, 0.99), in hundredths
ConfLow == 70
ConfHigh == 99
\* status_code=503 of the HTTPException
ServiceUnavailable == 503

Req == 1..NumReq
Direct == (NumReq + 1)..(NumReq + NumDirect)
Conn == Req \cup Direct

\* the input strings clients of Service B send: 0, 1 and 2 code points,
\* and 0, 2 and 3 UTF-8 bytes
Inputs == {<<>>, <<"eacute">>, <<"a", "eacute">>}
\* the payloads clients of Service A send
Payloads == {<<>>, <<"a", "eacute">>}

None == [none |-> TRUE]

\* ----------------------------------------------------- text and numbers
\* the number of UTF-8 bytes of a str
Utf8Len(s) == Len(s) + Cardinality({i \in DOMAIN s : s[i] = "eacute"})
\* len(input_text): the number of code points of a Python str
PyLen(s) == Len(s)

DigitChar == <<"0", "1", "2", "3", "4", "5", "6", "7", "8", "9">>

RECURSIVE Digits(_)
\* str(n) of a non-negative int: its decimal digits
Digits(n) == IF n < 10 THEN <<DigitChar[n + 1]>>
             ELSE Digits(n \div 10) \o <<DigitChar[(n % 10) + 1]>>

DigitVal(d) == CHOOSE v \in 0..9 : DigitChar[v + 1] = d
IsDigit(t) == \E v \in 0..9 : DigitChar[v + 1] = t

RECURSIVE ParseNat(_)
\* the int a sequence of decimal digits denotes
ParseNat(ds) == IF Len(ds) = 0 THEN 0
                ELSE 10 * ParseNat(SubSeq(ds, 1, Len(ds) - 1)) + DigitVal(ds[Len(ds)])


\* round-half-even of num/den (den > 0, num >= 0), as round() and the
\* format mini-language round a value that lies exactly half way
RoundDiv(num, den) ==
    LET q == num \div den
        r == num % den
    IN  IF 2 * r < den THEN q
        ELSE IF 2 * r > den THEN q + 1
        ELSE IF q % 2 = 0 THEN q ELSE q + 1

\* round(random.uniform(0.7, 0.99), 2) for the sample k/Grain of random():
\* a + (b - a) * random(), rounded to hundredths
UniformRounded(k) ==
    RoundDiv(ConfLow * Grain + (ConfHigh - ConfLow) * k, Grain)

\* f"{x:.1f}" of a value given in hundredths: one decimal place
Format1f(h) ==
    LET tenths == RoundDiv(h, 10)
    IN  Digits(tenths \div 10) \o <<".">> \o Digits(tenths % 10)

\* the f-string of the message, lines 71-72; confidence*100 is the percent
MessageUnscaled(prediction) ==
    <<"Predicted class: ", prediction.class, " with ">>
      \o Format1f(prediction.confidence) \o <<"% confidence">>
Message(prediction) ==
    <<"Predicted class: ", prediction.class, " with ">>
      \o Format1f(prediction.confidence * 100) \o <<"% confidence">>

\* ------------------------------------------------------------ Service B
SimpleMlModel_classes == <<"cat", "dog", "bird", "fish", "rabbit">>

\* SimpleMlModel.predict: i is the index random.choice draws, k the sample
\* of random() behind random.uniform
SimpleMlModel_predict(cls, input_text, i, k) ==
    [class |-> cls[i],
     confidence |-> UniformRounded(k),
     input_length |-> PyLen(input_text)]

\* the dict the /predict handler returns
PredictBody(prediction) ==
    [prediction |-> prediction, message |-> Message(prediction)]

B_read_root_result == [service |-> "Service B - ML Prediction", status |-> "running"]
B_health_check_result == [service |-> "Service B", status |-> "healthy"]

\* ------------------------------------------------------------ JSON wire
\* repr of a float given in hundredths: shortest digits, "0.7" for 0.70
FloatRepr(c) ==
    LET f == c % 100
    IN  Digits(c \div 100) \o <<".">> \o
        (IF f % 10 = 0 THEN Digits(f \div 10)
         ELSE <<DigitChar[(f \div 10) + 1], DigitChar[(f % 10) + 1]>>)

\* the float, in hundredths, that a JSON number "I.F" with one or two
\* fraction digits denotes
ParseFloat(ts) ==
    LET dot == CHOOSE j \in DOMAIN ts : ts[j] = "."
        frac == SubSeq(ts, dot + 1, Len(ts))
    IN  100 * ParseNat(SubSeq(ts, 1, dot - 1))
          + (IF Len(frac) = 1 THEN 10 * DigitVal(frac[1]) ELSE ParseNat(frac))

IsPredictBody(v) == "prediction" \in DOMAIN v

\* the JSON document FastAPI sends for a returned dict: numbers become text
JsonDumps(v) ==
    IF IsPredictBody(v)
    THEN [prediction |->
             [class |-> v.prediction.class,
              confidence |-> FloatRepr(v.prediction.confidence),
              input_length |-> Digits(v.prediction.input_length)],
          message |-> v.message]
    ELSE v

\* json.loads of a document: text becomes numbers again
JsonLoads(doc) ==
    IF IsPredictBody(doc)
    THEN [prediction |->
             [class |-> doc.prediction.class,
              confidence |-> ParseFloat(doc.prediction.confidence),
              input_length |-> ParseNat(doc.prediction.input_length)],
          message |-> doc.message]
    ELSE doc

JsonResponse(code, v) ==
    [kind |-> "response", status_code |-> code, decodable |-> TRUE,
     content |-> JsonDumps(v)]
TextResponse(code, text) ==
    [kind |-> "response", status_code |-> code, decodable |-> FALSE,
     content |-> [text |-> text]]

\* what may listen on localhost:8001 besides Service B and what it answers
ForeignResponses ==
    {JsonResponse(500, [detail |-> "Internal Server Error"]),
     TextResponse(500, "Internal Server Error")}

\* ------------------------------------------------------------ Service A
\* InputData with the flag ignored: every request is forwarded
InputDataAlwaysForward(raw) == [data |-> raw.data, forward_to_model |-> TRUE]

\* pydantic's InputData: forward_to_model defaults to True when omitted
InputData(raw) ==
    [data |-> raw.data,
     forward_to_model |->
        IF "forward_to_model" \in DOMAIN raw THEN raw.forward_to_model ELSE TRUE]

\* the outbound body with the last code point of the payload dropped
ForwardBodyCut(input_data) ==
    [input |-> SubSeq(input_data.data, 1, Len(input_data.data) - 1)]

\* json={"input": input_data.data}
ForwardBody(input_data) ==
    [input |-> input_data.data]

\* requests.RequestException and its subclasses; response.json() raises
\* requests.exceptions.JSONDecodeError, one of them (requests >= 2.27)
RequestExceptions == {"ConnectionError", "Timeout", "JSONDecodeError"}

ExcText(exc) ==
    CASE exc = "ConnectionError" -> "Connection refused"
      [] exc = "Timeout" -> "Read timed out. (read timeout=3)"
      [] exc = "JSONDecodeError" -> "Expecting value: line 1 column 1 (char 0)"

TransportError(exc) == [kind |-> "error", exc |-> exc, text |-> ExcText(exc)]

\* the exception the try block raises for an outcome of the exchange, or
\* None: requests.post raises on a transport error, response.json() on a
\* body that is not JSON
Raised(outcome) ==
    IF outcome.kind = "error" THEN [exc |-> outcome.exc, text |-> outcome.text]
    ELSE IF ~outcome.decodable
         THEN [exc |-> "JSONDecodeError", text |-> ExcText("JSONDecodeError")]
         ELSE None

Http503(text) ==
    [status_code |-> ServiceUnavailable,
     body |-> [detail |-> <<"Service B is unavailable: ", text>>]]

LoggedOnly == [status_code |-> 200, body |-> [status |-> "Input logged successfully"]]

\* process_input with the exception swallowed: a failure answers as if
\* the input had only been logged
process_input_result_swallow(outcome) ==
    IF Raised(outcome) # None THEN LoggedOnly
    ELSE [status_code |-> 200,
          body |-> [status |-> "Input logged successfully",
                    model_prediction |-> JsonLoads(outcome.content)]]

\* process_input with response.raise_for_status() before response.json()
process_input_result_raise_for_status(outcome) ==
    LET e == Raised(outcome)
    IN  IF e # None THEN Http503(e.text)
        ELSE IF outcome.status_code >= 400 THEN Http503("HTTPError")
        ELSE [status_code |-> 200,
              body |-> [status |-> "Input logged successfully",
                        model_prediction |-> JsonLoads(outcome.content)]]

\* lines 42-57: what process_input answers for the outcome of its exchange
process_input_result(outcome) ==
    LET e == Raised(outcome)
    IN  IF e # None /\ e.exc \in RequestExceptions
        THEN Http503(e.text)
        ELSE [status_code |-> 200,
              body |-> [status |-> "Input logged successfully",
                        model_prediction |-> JsonLoads(outcome.content)]]

A_read_root_result == [service |-> "Service A - Input Logger", status |-> "running"]
A_health_check_result == [service |-> "Service A", status |-> "healthy"]

\* ---------------------------------------------------------------- state
VARIABLES
    a_req,    \* Service A: the request of each client slot, or None
    a_pc,     \* "idle", "queued" (sent, not yet handled), "blocked"
              \* (process_input inside requests.post), "done" (answered)
    a_resp,   \* Service A: the response of each slot, or None
    a_posts,  \* number of requests.post calls process_input made per slot
    a_log,    \* levels of the log lines Service A emitted per slot
    net,      \* per connection to localhost:8001: the request, whether a
              \* listener took it, and what the caller got back
    b_resp,   \* Service B: what it returned per connection, or None
    b_log,    \* number of log lines Service B emitted per connection
    classes,  \* model.classes of the one SimpleMlModel
    peer      \* who listens on localhost:8001

vars == <<a_req, a_pc, a_resp, a_posts, a_log, net, b_resp, b_log, classes, peer>>

Peers == {"service_b", "down", "other"}

NoConn == [req |-> None, taken |-> FALSE, outcome |-> None]

\* the valid bodies of POST /process: forward_to_model given or omitted
ProcessBodies ==
    {[data |-> s] : s \in Payloads}
      \cup {[data |-> s, forward_to_model |-> f] : s \in Payloads, f \in BOOLEAN}

ARequests ==
    {[path |-> "/"], [path |-> "/health"]}
      \cup {[path |-> "/process", json |-> b] : b \in ProcessBodies}

BRequests ==
    {[path |-> "/"], [path |-> "/health"]}
      \cup {[path |-> "/predict", json |-> [input |-> s]] : s \in Inputs}

Init ==
    /\ a_req = [r \in Req |-> None]
    /\ a_pc = [r \in Req |-> "idle"]
    /\ a_resp = [r \in Req |-> None]
    /\ a_posts = [r \in Req |-> 0]
    /\ a_log = [r \in Req |-> <<>>]
    /\ net = [c \in Conn |-> NoConn]
    /\ b_resp = [c \in Conn |-> None]
    /\ b_log = [c \in Conn |-> 0]
    /\ classes = SimpleMlModel_classes
    /\ peer \in Peers

\* the event loop of Service A is free: no async handler is inside a
\* blocking call on the loop's thread
LoopFree == \A r \in Req : a_pc[r] # "blocked"

\* -------------------------------------------------- clients of Service A
\* Q holds the requests the client may send
ClientSend(r, Q) ==
    /\ a_pc[r] = "idle"
    /\ \E q \in Q : a_req' = [a_req EXCEPT ![r] = q]
    /\ a_pc' = [a_pc EXCEPT ![r] = "queued"]
    /\ UNCHANGED <<a_resp, a_posts, a_log, net, b_resp, b_log, classes, peer>>

\* the client has its response; the request/response cycle is over
ClientClose(r) ==
    /\ a_pc[r] = "done"
    /\ a_req' = [a_req EXCEPT ![r] = None]
    /\ a_pc' = [a_pc EXCEPT ![r] = "idle"]
    /\ a_resp' = [a_resp EXCEPT ![r] = None]
    /\ a_posts' = [a_posts EXCEPT ![r] = 0]
    /\ a_log' = [a_log EXCEPT ![r] = <<>>]
    /\ net' = [net EXCEPT ![r] = NoConn]
    /\ b_resp' = [b_resp EXCEPT ![r] = None]
    /\ b_log' = [b_log EXCEPT ![r] = 0]
    /\ UNCHANGED <<classes, peer>>

\* ------------------------------------------------- handlers of Service A
\* GET /
A_read_root(r) ==
    /\ a_pc[r] = "queued"
    /\ a_req[r].path = "/"
    /\ LoopFree
    /\ a_resp' = [a_resp EXCEPT ![r] = [status_code |-> 200, body |-> A_read_root_result]]
    /\ a_pc' = [a_pc EXCEPT ![r] = "done"]
    /\ UNCHANGED <<a_req, a_posts, a_log, net, b_resp, b_log, classes, peer>>

\* GET /health
A_health_check(r) ==
    /\ a_pc[r] = "queued"
    /\ a_req[r].path = "/health"
    /\ LoopFree
    /\ a_resp' = [a_resp EXCEPT ![r] = [status_code |-> 200, body |-> A_health_check_result]]
    /\ a_pc' = [a_pc EXCEPT ![r] = "done"]
    /\ UNCHANGED <<a_req, a_posts, a_log, net, b_resp, b_log, classes, peer>>

\* POST /process with forward_to_model false: lines 38, 41, 60
A_process_input_logged(r) ==
    /\ a_pc[r] = "queued"
    /\ a_req[r].path = "/process"
    /\ LoopFree
    /\ ~InputData(a_req[r].json).forward_to_model
    /\ a_log' = [a_log EXCEPT ![r] = Append(@, "INFO")]
    /\ a_resp' = [a_resp EXCEPT ![r] = LoggedOnly]
    /\ a_pc' = [a_pc EXCEPT ![r] = "done"]
    /\ UNCHANGED <<a_req, a_posts, net, b_resp, b_log, classes, peer>>

\* POST /process with forwarding: lines 38, 41, 43-47 up to the point
\* where requests.post blocks the calling thread
A_process_input_post(r) ==
    /\ a_pc[r] = "queued"
    /\ a_req[r].path = "/process"
    /\ LoopFree
    /\ InputData(a_req[r].json).forward_to_model
    /\ a_log' = [a_log EXCEPT ![r] = Append(@, "INFO")]
    /\ a_posts' = [a_posts EXCEPT ![r] = @ + 1]
    /\ net' = [net EXCEPT ![r] =
                 [req |-> [path |-> "/predict",
                           json |-> ForwardBody(InputData(a_req[r].json))],
                  taken |-> FALSE, outcome |-> None]]
    /\ a_pc' = [a_pc EXCEPT ![r] = "blocked"]
    /\ UNCHANGED <<a_req, a_resp, b_resp, b_log, classes, peer>>

\* process_input with one retry: a failed exchange is posted once more
A_process_input_return_retry(r) ==
    /\ a_pc[r] = "blocked"
    /\ net[r].outcome # None
    /\ IF net[r].outcome.kind = "error" /\ a_posts[r] < 2
       THEN /\ a_posts' = [a_posts EXCEPT ![r] = @ + 1]
            /\ net' = [net EXCEPT ![r].taken = FALSE, ![r].outcome = None]
            /\ UNCHANGED <<a_req, a_pc, a_resp, a_log, b_resp, b_log, classes, peer>>
       ELSE /\ a_resp' = [a_resp EXCEPT ![r] = process_input_result(net[r].outcome)]
            /\ a_pc' = [a_pc EXCEPT ![r] = "done"]
            /\ UNCHANGED <<a_req, a_posts, a_log, net, b_resp, b_log, classes, peer>>

\* requests.post has returned or raised: lines 48-57
A_process_input_return(r) ==
    /\ a_pc[r] = "blocked"
    /\ net[r].outcome # None
    /\ LET res == process_input_result(net[r].outcome)
       IN  /\ a_resp' = [a_resp EXCEPT ![r] = res]
           /\ a_log' = [a_log EXCEPT ![r] =
                          IF res.status_code = ServiceUnavailable
                          THEN Append(@, "ERROR") ELSE @]
    /\ a_pc' = [a_pc EXCEPT ![r] = "done"]
    /\ UNCHANGED <<a_req, a_posts, net, b_resp, b_log, classes, peer>>

\* ------------------------------------------------------------- network
Waiting(c) == net[c].req # None /\ ~net[c].taken

\* what the caller of connection c holds once `out` is produced: a caller
\* that already gave up (timeout) keeps its exception
Deliver(c, out) ==
    [net[c] EXCEPT !.taken = TRUE,
                   !.outcome = IF net[c].outcome = None THEN out ELSE @]

\* nothing listens on the port: connection refused
ConnRefused(c) ==
    /\ Waiting(c)
    /\ peer = "down"
    /\ net' = [net EXCEPT ![c] = Deliver(c, TransportError("ConnectionError"))]
    /\ UNCHANGED <<a_req, a_pc, a_resp, a_posts, a_log, b_resp, b_log, classes, peer>>

\* requests.post without timeout=: the call waits for ever
TimeoutNever(r) ==
    /\ FALSE
    /\ UNCHANGED vars

\* timeout=3 elapsed with no answer
Timeout(r) ==
    /\ a_pc[r] = "blocked"
    /\ net[r].outcome = None
    /\ net' = [net EXCEPT ![r].outcome = TransportError("Timeout")]
    /\ UNCHANGED <<a_req, a_pc, a_resp, a_posts, a_log, b_resp, b_log, classes, peer>>

\* another program on the port answers
ForeignAnswer(c) ==
    /\ Waiting(c)
    /\ peer = "other"
    /\ \E out \in ForeignResponses : net' = [net EXCEPT ![c] = Deliver(c, out)]
    /\ UNCHANGED <<a_req, a_pc, a_resp, a_posts, a_log, b_resp, b_log, classes, peer>>

\* Service B starts (module import builds the model) or stops, or another
\* program takes the port
PeerChange ==
    /\ \E p \in Peers \ {peer} : peer' = p
    /\ classes' = SimpleMlModel_classes
    /\ UNCHANGED <<a_req, a_pc, a_resp, a_posts, a_log, net, b_resp, b_log>>

\* -------------------------------------------- direct clients of Service B
DirectSend(d) ==
    /\ net[d].req = None
    /\ \E q \in BRequests : net' = [net EXCEPT ![d] = [NoConn EXCEPT !.req = q]]
    /\ UNCHANGED <<a_req, a_pc, a_resp, a_posts, a_log, b_resp, b_log, classes, peer>>

DirectClose(d) ==
    /\ net[d].outcome # None
    /\ net' = [net EXCEPT ![d] = NoConn]
    /\ b_resp' = [b_resp EXCEPT ![d] = None]
    /\ b_log' = [b_log EXCEPT ![d] = 0]
    /\ UNCHANGED <<a_req, a_pc, a_resp, a_posts, a_log, classes, peer>>

\* ------------------------------------------------- handlers of Service B
BAnswer(c, v) ==
    /\ b_resp' = [b_resp EXCEPT ![c] = [status_code |-> 200, body |-> v]]
    /\ net' = [net EXCEPT ![c] = Deliver(c, JsonResponse(200, v))]

\* GET /
B_read_root(c) ==
    /\ Waiting(c)
    /\ peer = "service_b"
    /\ net[c].req.path = "/"
    /\ BAnswer(c, B_read_root_result)
    /\ UNCHANGED <<a_req, a_pc, a_resp, a_posts, a_log, b_log, classes, peer>>

\* GET /health
B_health_check(c) ==
    /\ Waiting(c)
    /\ peer = "service_b"
    /\ net[c].req.path = "/health"
    /\ BAnswer(c, B_health_check_result)
    /\ UNCHANGED <<a_req, a_pc, a_resp, a_posts, a_log, b_log, classes, peer>>

\* POST /predict: lines 62-74 with SimpleMlModel.predict, lines 41-50.
\* Draws holds the pairs <<i, k>> the random source may give: i the index
\* random.choice draws, k the sample of random()
B_predict_pop(c, Draws) ==
    /\ Waiting(c)
    /\ peer = "service_b"
    /\ net[c].req.path = "/predict"
    /\ \E d \in Draws :
          /\ BAnswer(c, PredictBody(SimpleMlModel_predict(classes, net[c].req.json.input, d[1], d[2])))
          /\ classes' = SubSeq(classes, 1, d[1] - 1) \o SubSeq(classes, d[1] + 1, Len(classes))
    /\ b_log' = [b_log EXCEPT ![c] = @ + 2]
    /\ UNCHANGED <<a_req, a_pc, a_resp, a_posts, a_log, peer>>
B_predict(c, Draws) ==
    /\ Waiting(c)
    /\ peer = "service_b"
    /\ net[c].req.path = "/predict"
    /\ \E d \in Draws :
          BAnswer(c, PredictBody(SimpleMlModel_predict(classes, net[c].req.json.input, d[1], d[2])))
    /\ b_log' = [b_log EXCEPT ![c] = @ + 2]
    /\ UNCHANGED <<a_req, a_pc, a_resp, a_posts, a_log, classes, peer>>

\* every draw of the random source
AllDraws == (1..Len(classes)) \X (0..Grain)
\* the two extreme draws only
EndDraws == {<<1, 0>>, <<Len(classes), Grain>>}

\* The two services, driven by the clients of Service A.
Next ==
    \/ \E r \in Req : ClientSend(r, ARequests)
    \/ \E r \in Req : ClientClose(r)
    \/ \E r \in Req : A_read_root(r)
    \/ \E r \in Req : A_health_check(r)
    \/ \E r \in Req : A_process_input_logged(r)
    \/ \E r \in Req : A_process_input_post(r)
    \/ \E r \in Req : A_process_input_return(r)
    \/ \E r \in Req : Timeout(r)
    \/ \E r \in Req : ConnRefused(r)
    \/ \E r \in Req : ForeignAnswer(r)
    \/ \E r \in Req : B_predict(r, EndDraws)
    \/ PeerChange

Spec == Init /\ [][Next]_vars

\* Service B, driven by its own clients.
NextB ==
    \/ \E d \in Direct : DirectSend(d)
    \/ \E d \in Direct : DirectClose(d)
    \/ \E d \in Direct : B_read_root(d)
    \/ \E d \in Direct : B_health_check(d)
    \/ \E d \in Direct : B_predict(d, AllDraws)
    \/ \E d \in Direct : ConnRefused(d)
    \/ PeerChange

SpecB == Init /\ [][NextB]_vars

\* The same system under the scheduling the code provides: timeout=3 ends a
\* pending requests.post, a handler whose call has ended runs on, and the
\* event loop hands every queued request to its handler once it is free.
Fairness ==
    \A r \in Req :
        /\ WF_vars(Timeout(r))
        /\ WF_vars(A_process_input_return(r))
        /\ SF_vars(A_process_input_post(r))

\* the requests of the fair system: GET /health and POST /process with an
\* empty payload, the flag true, false or omitted
LiveRequests ==
    {q \in ARequests : q.path = "/health" \/ (q.path = "/process" /\ q.json.data = <<>>)}

\* the one draw of the random source in the fair system
OneDraw == {<<1, 0>>}

\* The two services driven by the clients of Service A, with Service B up,
\* down or replaced by a program that never answers.
NextLive ==
    \/ \E r \in Req : ClientSend(r, LiveRequests)
    \/ \E r \in Req : ClientClose(r)
    \/ \E r \in Req : A_health_check(r)
    \/ \E r \in Req : A_process_input_logged(r)
    \/ \E r \in Req : A_process_input_post(r)
    \/ \E r \in Req : A_process_input_return(r)
    \/ \E r \in Req : Timeout(r)
    \/ \E r \in Req : ConnRefused(r)
    \/ \E r \in Req : B_predict(r, OneDraw)
    \/ PeerChange

FairSpec == Init /\ [][NextLive]_vars /\ Fairness

\* ================================================================ claims
IsProcess(r) == a_pc[r] # "idle" /\ a_req[r].path = "/process"

\* forward_to_model is true, given or by default
Forwarding(r) ==
    /\ IsProcess(r)
    /\ \/ "forward_to_model" \notin DOMAIN a_req[r].json
       \/ a_req[r].json.forward_to_model

NotForwarding(r) ==
    /\ IsProcess(r)
    /\ "forward_to_model" \in DOMAIN a_req[r].json
    /\ ~a_req[r].json.forward_to_model

PredictAnswered(c) ==
    /\ b_resp[c] # None
    /\ net[c].req.path = "/predict"

\* C1: a /process request with forward_to_model = false never opens an
\* exchange with Service B, whoever listens on its port, and its response
\* is exactly {status: "Input logged successfully"}.
C1_LocalOnly ==
    \A r \in Req :
        NotForwarding(r) =>
            /\ a_posts[r] = 0
            /\ net[r] = NoConn
            /\ a_pc[r] # "blocked"
            /\ a_pc[r] = "done" =>
                 a_resp[r] = [status_code |-> 200,
                              body |-> [status |-> "Input logged successfully"]]

C1_Witness ==
    \E r \in Req :
        /\ NotForwarding(r)
        /\ a_pc[r] = "done"
        /\ peer = "down"
        /\ a_resp[r].body = [status |-> "Input logged successfully"]

\* C2: when Service B answered the exchange of a forwarding request, the
\* body sent was {input: data}, data unchanged, and the response carries as
\* model_prediction the very dict Service B returned on that connection.
C2_Relay ==
    \A r \in Req :
        (/\ Forwarding(r)
         /\ a_pc[r] = "done"
         /\ net[r].outcome.kind = "response"
         /\ b_resp[r] # None) =>
            /\ net[r].req = [path |-> "/predict",
                             json |-> [input |-> a_req[r].json.data]]
            /\ a_resp[r] = [status_code |-> 200,
                            body |-> [status |-> "Input logged successfully",
                                      model_prediction |-> b_resp[r].body]]

\* a relayed prediction while Service B also returned a different one on
\* another connection
C2_Witness ==
    \E r, q \in Req :
        /\ r # q
        /\ Forwarding(r)
        /\ a_pc[r] = "done"
        /\ a_req[r].json.data = <<"a", "eacute">>
        /\ net[r].outcome.kind = "response"
        /\ b_resp[r] # None
        /\ b_resp[q] # None
        /\ b_resp[q].body # b_resp[r].body
        /\ a_resp[r].body.model_prediction.prediction.confidence = 99

\* C3: a forwarding request whose exchange failed at transport level is
\* answered 503 with the failure text in the detail, never with the
\* success payload.
C3_TransportFailure ==
    \A r \in Req :
        (/\ Forwarding(r)
         /\ a_pc[r] = "done"
         /\ net[r].outcome.kind = "error") =>
            /\ a_resp[r].status_code = 503
            /\ a_resp[r].body =
                 [detail |-> <<"Service B is unavailable: ", net[r].outcome.text>>]
            /\ "status" \notin DOMAIN a_resp[r].body

C3_Witness ==
    \E r \in Req :
        /\ Forwarding(r)
        /\ a_pc[r] = "done"
        /\ net[r].outcome.kind = "error"
        /\ net[r].outcome.exc = "ConnectionError"
        /\ a_resp[r].status_code = 503

\* C4: a forwarding request (flag true or omitted) posts to Service B
\* exactly once: once when the call is issued, and still once when the
\* request is answered, whatever the exchange gave.
C4_SinglePost ==
    \A r \in Req :
        /\ a_posts[r] <= 1
        /\ (Forwarding(r) /\ a_pc[r] \in {"blocked", "done"}) => a_posts[r] = 1

C4_Witness ==
    \E r \in Req :
        /\ IsProcess(r)
        /\ "forward_to_model" \notin DOMAIN a_req[r].json
        /\ a_pc[r] = "done"
        /\ net[r].outcome.kind = "error"
        /\ net[r].outcome.exc = "Timeout"
        /\ a_posts[r] = 1

\* C5: every forwarding request that reached Service A is eventually
\* answered, and one whose exchange timed out or was refused is answered
\* 503 in both cases.
C5_Answered ==
    /\ \A r \in Req : (a_pc[r] = "queued" /\ Forwarding(r)) ~> (a_pc[r] = "done")
    /\ [](\A r \in Req :
            (/\ Forwarding(r)
             /\ a_pc[r] = "done"
             /\ net[r].outcome.kind = "error"
             /\ net[r].outcome.exc \in {"Timeout", "ConnectionError"}) =>
                a_resp[r].status_code = 503)

C5_Witness ==
    \E r \in Req :
        /\ Forwarding(r)
        /\ a_pc[r] = "done"
        /\ net[r].outcome.kind = "error"
        /\ net[r].outcome.exc = "Timeout"
        /\ ~net[r].taken
        /\ peer = "service_b"
        /\ a_resp[r].status_code = 503

\* C6: every answer of POST /predict is a 200 whose class is one of the five
\* labels, whose confidence lies in [0.70, 0.99] and whose input_length is
\* the number of characters of the input.
C6_Prediction ==
    \A c \in Conn :
        PredictAnswered(c) =>
            /\ b_resp[c].status_code = 200
            /\ b_resp[c].body.prediction.class \in {"cat", "dog", "bird", "fish", "rabbit"}
            /\ b_resp[c].body.prediction.confidence >= 70
            /\ b_resp[c].body.prediction.confidence <= 99
            /\ b_resp[c].body.prediction.input_length = Len(net[c].req.json.input)

\* the empty input and a one-character, two-byte input, at both ends of
\* the confidence range
C6_Witness ==
    \E c, d \in Conn :
        /\ PredictAnswered(c)
        /\ net[c].req.json.input = <<>>
        /\ b_resp[c].body.prediction.input_length = 0
        /\ b_resp[c].body.prediction.confidence = 70
        /\ PredictAnswered(d)
        /\ net[d].req.json.input = <<"eacute">>
        /\ b_resp[d].body.prediction.input_length = 1
        /\ b_resp[d].body.prediction.confidence = 99
        /\ b_resp[d].body.prediction.class = "rabbit"

\* C8: the message of a /predict answer reads "Predicted class: <class>
\* with <p>% confidence", <class> the class of the same answer and <p> a
\* decimal with exactly one fraction digit whose value is confidence * 100.
C8_Message ==
    \A c \in Conn :
        PredictAnswered(c) =>
            LET m == b_resp[c].body.message
                p == b_resp[c].body.prediction
                n == Len(m)
            IN  /\ n >= 7
                /\ m[1] = "Predicted class: "
                /\ m[2] = p.class
                /\ m[3] = " with "
                /\ \A j \in 4..(n - 3) : IsDigit(m[j])
                /\ m[n - 2] = "."
                /\ IsDigit(m[n - 1])
                /\ m[n] = "% confidence"
                /\ 10 * ParseNat(SubSeq(m, 4, n - 3)) + DigitVal(m[n - 1])
                     = 10 * p.confidence

C8_Witness ==
    \E c \in Conn :
        /\ PredictAnswered(c)
        /\ b_resp[c].body.prediction.confidence = 84
        /\ b_resp[c].body.message =
             <<"Predicted class: ", "dog", " with ", "8", "4", ".", "0", "% confidence">>

C10_StatusIgnored ==
    \A r \in Req :
        (Forwarding(r) /\ a_pc[r] = "done") =>
            LET out == net[r].outcome
            IN  /\ a_resp[r].status_code = 503
                     <=> (out.kind = "error" \/ ~out.decodable)
                /\ (out.kind = "response" /\ out.decodable) =>
                     a_resp[r] =
                       [status_code |-> 200,
                        body |-> [status |-> "Input logged successfully",
                                  model_prediction |-> JsonLoads(out.content)]]

C10_Witness ==
    \E r \in Req :
        /\ Forwarding(r)
        /\ a_pc[r] = "done"
        /\ net[r].outcome.kind = "response"
        /\ net[r].outcome.status_code = 500
        /\ net[r].outcome.decodable
        /\ a_resp[r].status_code = 200
        /\ a_resp[r].body.model_prediction = [detail |-> "Internal Server Error"]

\* C7: while a /process request waits inside its outbound call, a queued
\* GET /health, GET / or non-forwarding /process can be served at once, and
\* GET /health answers status "healthy".
C7_ServedMeanwhile ==
    /\ \A r \in Req :
         (a_pc[r] = "done" /\ a_req[r].path = "/health") =>
             a_resp[r].body.status = "healthy"
    /\ \A r, q \in Req :
         (a_pc[r] = "blocked" /\ a_pc[q] = "queued") =>
             /\ a_req[q].path = "/health" => ENABLED A_health_check(q)
             /\ a_req[q].path = "/" => ENABLED A_read_root(q)
             /\ NotForwarding(q) => ENABLED A_process_input_logged(q)

====
